---- MODULE Spec2Model ----
(***************************************************************************)
(* A model of struct ancestry_tracker (ancestry_tracker.hpp): the node and *)
(* edge stores, the index allocator, finish_generation and the two-phase   *)
(* hand-off to the simplifier (prep_for_gc / post_process_gc).             *)
(*                                                                         *)
(* Node times are doubles in the source; every value the tracker ever      *)
(* stores is an integer of small magnitude, so they are modelled as        *)
(* integers.  Breakpoint positions are modelled as integers as well (the   *)
(* tracker only copies them).                                              *)
(***************************************************************************)
EXTENDS Integers, Sequences, FiniteSets, TLC

\* ---------------------------------------------------------------- bounds
\* the non-zero founder population size N passed to the constructor
MaxN == 1
\* finish_generation is taken only while generation < MaxGeneration
MaxGeneration == 3
\* get_next_indexes is taken only while fewer than MaxPairs pairs are listed
MaxPairs == 2
\* add_edges is taken only while fewer than MaxEdges edges are recorded
\* (stored + staged)
MaxEdges == 1
\* the non-zero next_index handed back by the simplifier
MaxNewIndex == 1
\* the non-zero parent ordinal asked of get_parent_ids
MaxOrdinal == 1
\* longest run of consecutive prep_for_gc calls
MaxPrepRun == 2

\* ----------------------------------------------------------------- inputs
\* constructor argument N
FounderSizes == {0, MaxN}
\* get_parent_ids argument p
Ordinals == {0, MaxOrdinal}
\* second element of the tuple passed to post_process_gc
NewIndexes == {0, MaxNewIndex}

\* ------------------------------------------------------ program constants
\* lastN is a std::uint32_t; it is kept as its two 16-bit halves
HalfWord == 65536

\* ------------------------------------------------------------------ state
VARIABLES
    nodes,                 \* std::vector<node>
    edges,                 \* std::vector<edge>, the ARG
    temp,                  \* std::vector<edge>, edges of the generation
    offspring_indexes,     \* std::vector<integer_type>
    generation,
    next_index,
    first_parental_index,
    lastN,
    last_gc_time,
    \* observation of the calls (not part of the tracker)
    lastOp,                \* the last call: [op |-> name, args |-> tuple]
    ret,                   \* what the last call returned (<<>> for void)
    genAllocs,             \* identities allocated since the last
                           \* finish_generation (or since construction)
    prepRun,               \* number of prep_for_gc calls in a row
    prepBase,              \* the node store before the first call of that run
    genStart,              \* next_index when the generation in progress started
    staged,                \* transmissions reported since the last
                           \* finish_generation
    flushed,               \* transmissions of the generations finished
                           \* since the last reset
    born,                  \* per stored node, the generation that created
                           \* it (0 for a founder)
    phase,                 \* where the driver stands in its per-generation
                           \* sequence of calls ("free": not followed)
    finishes,              \* number of finish_generation calls made
    forward                \* no prep_for_gc has rewritten a node time since
                           \* construction or the last reset

tracker == <<nodes, edges, temp, offspring_indexes, generation, next_index,
             first_parental_index, lastN, last_gc_time>>

vars == <<nodes, edges, temp, offspring_indexes, generation, next_index,
          first_parental_index, lastN, last_gc_time,
          lastOp, ret, genAllocs, prepRun, prepBase,
          genStart, staged, flushed, born, phase, finishes, forward>>

\* ---------------------------------------------------------------- values
\* make_node(id, time, population)
make_node(id, time, population) ==
    [id |-> id, generation |-> time, population |-> population]

\* make_edge(left, right, parent, child)
make_edge(left, right, parent, child) ==
    [left |-> left, right |-> right, parent |-> parent, child |-> child]

\* conversion of an integer_type value to std::uint32_t (modulo 2^32)
to_uint32(v) == [hi |-> (v \div HalfWord) % HalfWord, lo |-> v % HalfWord]

\* The driver's fixed sequence of calls, once per generation: allocate
\* identities and stage edges for every mating event, then finish_generation,
\* then (at a cadence the driver chooses) prep_for_gc, the simplifier, and
\* post_process_gc.  The phase reached by the call op from the current phase;
\* a call out of sequence, or a generation finished without an allocation,
\* leaves the sequence for good.
driver_next(op) ==
    CASE phase = "free" -> "free"
      [] op \in {"get_parent_ids", "get_next_indexes", "add_edges"}
            /\ phase \in {"generation", "finished"} -> "generation"
      [] op = "finish_generation" /\ phase = "generation"
            /\ genAllocs # <<>> -> "finished"
      [] op = "prep_for_gc" /\ phase = "finished" -> "prepared"
      [] op = "post_process_gc" /\ phase = "prepared" -> "generation"
      [] OTHER -> "astray"

\* Recording of a call: its name and arguments, and its return value.
Observe(op, args, rv) ==
    /\ lastOp' = [op |-> op, args |-> args]
    /\ ret' = rv
    /\ phase' = driver_next(op)

\* Any call but prep_for_gc ends a run of prep_for_gc calls.
EndPrepRun ==
    /\ prepRun' = 0
    /\ prepBase' = <<>>

\* ------------------------------------------------------------ constructor
\* variant: the loop counts from 1 instead of 0
FounderNodes_from_one(N) == [i \in 1..(2 * N) |-> make_node(i, 0, 0)]

\* the 2N nodes of generation 0: ids 0..2N-1, time 0, population 0
FounderNodes(N) == [i \in 1..(2 * N) |-> make_node(i - 1, 0, 0)]

\* the tracker as the constructor leaves it, for founder population size N
ancestry_tracker(N) ==
    /\ nodes = FounderNodes(N)
    /\ edges = <<>>
    /\ temp = <<>>
    /\ offspring_indexes = <<>>
    /\ generation = 1
    /\ next_index = 2 * N
    /\ first_parental_index = 0
    /\ lastN = to_uint32(N)
    /\ last_gc_time = 0
    /\ lastOp = [op |-> "ancestry_tracker", args |-> <<N>>]
    /\ ret = <<>>
    /\ genAllocs = <<>>
    /\ prepRun = 0
    /\ prepBase = <<>>
    /\ genStart = 2 * N
    /\ staged = <<>>
    /\ flushed = <<>>
    /\ born = [i \in 1..(2 * N) |-> 0]
    /\ finishes = 0
    /\ forward = TRUE

\* the calls are made in any order
Init ==
    /\ \E N \in FounderSizes : ancestry_tracker(N)
    /\ phase = "free"

\* the calls are checked against the driver's sequence
InitDriver ==
    /\ \E N \in FounderSizes : ancestry_tracker(N)
    /\ phase = "generation"

\* ---------------------------------------------------------- get_parent_ids
\* !did_swap of an int that is 0 or 1
LogicalNot(did_swap) == IF did_swap = 0 THEN 1 ELSE 0

\* variant: the second identity is built without the negation
parent_ids_no_not(p, did_swap) ==
    << first_parental_index + 2 * p + did_swap,
       first_parental_index + 2 * p + did_swap >>

parent_ids(p, did_swap) ==
    << first_parental_index + 2 * p + did_swap,
       first_parental_index + 2 * p + LogicalNot(did_swap) >>

get_parent_ids(p, did_swap) ==
    /\ Observe("get_parent_ids", <<p, did_swap>>, parent_ids(p, did_swap))
    /\ EndPrepRun
    /\ UNCHANGED <<tracker, genAllocs,
                   genStart, staged, flushed, born, finishes, forward>>

\* -------------------------------------------------------- get_next_indexes
\* variant: the counter advances by one
get_next_indexes_by_one ==
    /\ Len(offspring_indexes) < 2 * MaxPairs
    /\ LET rv == <<next_index, next_index + 1>> IN
        /\ next_index' = next_index + 1
        /\ offspring_indexes' = Append(Append(offspring_indexes, rv[1]), rv[2])
        /\ genAllocs' = Append(Append(genAllocs, rv[1]), rv[2])
        /\ Observe("get_next_indexes", <<>>, rv)
    /\ EndPrepRun
    /\ UNCHANGED <<nodes, edges, temp, generation, first_parental_index,
                   lastN, last_gc_time,
                   genStart, staged, flushed, born, finishes, forward>>

get_next_indexes ==
    /\ Len(offspring_indexes) < 2 * MaxPairs
    /\ LET rv == <<next_index, next_index + 1>> IN
        /\ next_index' = next_index + 2
        /\ offspring_indexes' = Append(Append(offspring_indexes, rv[1]), rv[2])
        /\ genAllocs' = Append(Append(genAllocs, rv[1]), rv[2])
        /\ Observe("get_next_indexes", <<>>, rv)
    /\ EndPrepRun
    /\ UNCHANGED <<nodes, edges, temp, generation, first_parental_index,
                   lastN, last_gc_time,
                   genStart, staged, flushed, born, finishes, forward>>

\* --------------------------------------------------------------- add_edges
\* the breakpoint vectors the driver passes: (first, second) pairs
BreakpointLists == { <<>>, << <<0, 1>> >>, << <<0, 1>>, <<1, 2>> >> }

\* the (parent, child) transmissions the driver reports
ParentChildPairs == { <<0, 2>> }

\* variant: the intervals are walked from the last to the first
new_edges_reversed(breakpoints, parent, child) ==
    [i \in 1..Len(breakpoints) |->
        make_edge(breakpoints[Len(breakpoints) + 1 - i][1],
                  breakpoints[Len(breakpoints) + 1 - i][2], parent, child)]

\* the edges emplaced for one call, one per breakpoint interval, in order
new_edges(breakpoints, parent, child) ==
    [i \in 1..Len(breakpoints) |->
        make_edge(breakpoints[i][1], breakpoints[i][2], parent, child)]

\* what one call asks to be recorded: each interval with the parent and child
reported(breakpoints, parent, child) ==
    [i \in 1..Len(breakpoints) |->
        [interval |-> breakpoints[i], parent |-> parent, child |-> child]]

add_edges(breakpoints, parent, child) ==
    /\ Len(edges) + Len(temp) < MaxEdges
    /\ temp' = temp \o new_edges(breakpoints, parent, child)
    /\ staged' = staged \o reported(breakpoints, parent, child)
    /\ Observe("add_edges", <<breakpoints, parent, child>>, <<>>)
    /\ EndPrepRun
    /\ UNCHANGED <<nodes, edges, offspring_indexes, generation, next_index,
                   first_parental_index, lastN, last_gc_time, genAllocs,
                   genStart, flushed, born,
                   finishes, forward>>

\* -------------------------------------------------------- finish_generation
\* one node per listed identity, in list order, at the current generation
offspring_nodes ==
    [i \in 1..Len(offspring_indexes) |->
        make_node(offspring_indexes[i], generation, 0)]

\* offspring_indexes.front() of an empty vector is undefined: the read
\* yields an arbitrary value (or the process dies, which ends the run).
UndefinedFront == {-1, 3}

finish_generation_rest ==
    /\ nodes' = nodes \o offspring_nodes
    /\ edges' = edges \o temp
    /\ lastN' = to_uint32(next_index - first_parental_index)
    /\ temp' = <<>>
    /\ generation' = generation + 1
    /\ genAllocs' = <<>>
    /\ genStart' = next_index
    /\ staged' = <<>>
    /\ flushed' = flushed \o staged
    /\ born' = born \o [i \in 1..Len(offspring_indexes) |-> generation]
    /\ finishes' = finishes + 1
    /\ forward' = forward
    /\ Observe("finish_generation", <<>>, <<>>)
    /\ EndPrepRun
    /\ UNCHANGED <<offspring_indexes, next_index, last_gc_time>>

finish_generation ==
    /\ generation < MaxGeneration
    /\ offspring_indexes # <<>>
    /\ first_parental_index' = Head(offspring_indexes)
    /\ finish_generation_rest

finish_generation_empty ==
    /\ generation < MaxGeneration
    /\ offspring_indexes = <<>>
    /\ first_parental_index' \in UndefinedFront
    /\ finish_generation_rest

\* -------------------------------------------------------------- prep_for_gc
\* variant: max_gen is read from the first node
backward_times_front(ns) ==
    LET max_gen == ns[1].generation IN
    [i \in 1..Len(ns) |->
        [ns[i] EXCEPT !.generation = (ns[i].generation - max_gen) * (-1)]]

\* n.generation -= max_gen; n.generation *= -1.0, with max_gen the time of
\* the last node (a zero result is -0.0 in the source, which equals 0.0)
backward_times(ns) ==
    LET max_gen == ns[Len(ns)].generation IN
    [i \in 1..Len(ns) |->
        [ns[i] EXCEPT !.generation = (ns[i].generation - max_gen) * (-1)]]

\* variant: the call also empties the staging buffer
prep_for_gc_clears_temp ==
    /\ prepRun < MaxPrepRun
    /\ nodes' = IF nodes = <<>> THEN nodes ELSE backward_times(nodes)
    /\ temp' = <<>>
    /\ staged' = <<>>
    /\ Observe("prep_for_gc", <<>>, <<>>)
    /\ prepRun' = prepRun + 1
    /\ forward' = (forward /\ nodes' = nodes)
    /\ prepBase' = IF prepRun = 0 THEN nodes ELSE prepBase
    /\ UNCHANGED <<edges, offspring_indexes, generation, next_index,
                   first_parental_index, lastN, last_gc_time, genAllocs,
                   genStart, flushed, born,
                   finishes>>

prep_for_gc ==
    /\ prepRun < MaxPrepRun
    /\ nodes' = IF nodes = <<>> THEN nodes ELSE backward_times(nodes)
    /\ Observe("prep_for_gc", <<>>, <<>>)
    /\ prepRun' = prepRun + 1
    /\ forward' = (forward /\ nodes' = nodes)
    /\ prepBase' = IF prepRun = 0 THEN nodes ELSE prepBase
    /\ UNCHANGED <<edges, temp, offspring_indexes, generation, next_index,
                   first_parental_index, lastN, last_gc_time, genAllocs,
                   genStart, staged, flushed, born,
                   finishes>>

\* ---------------------------------------------------------- post_process_gc
\* variant: the edge store is not cleared
post_process_gc_keeps_edges(gc, t1) ==
    /\ IF ~gc
         THEN UNCHANGED <<nodes, next_index, first_parental_index,
                          last_gc_time>>
         ELSE /\ last_gc_time' = generation
              /\ next_index' = t1
              /\ first_parental_index' = 0
              /\ nodes' = <<>>
    /\ flushed' = IF gc THEN <<>> ELSE flushed
    /\ born' = IF gc THEN <<>> ELSE born
    /\ forward' = (gc \/ forward)
    /\ Observe("post_process_gc", <<gc, t1>>, <<>>)
    /\ EndPrepRun
    /\ UNCHANGED <<edges, temp, offspring_indexes, generation, lastN,
                   genAllocs,
                   genStart, staged,
                   finishes>>

\* variant: next_index is assigned before the early return
post_process_gc_assigns_first(gc, t1) ==
    /\ next_index' = t1
    /\ IF ~gc
         THEN UNCHANGED <<nodes, edges, first_parental_index, last_gc_time>>
         ELSE /\ last_gc_time' = generation
              /\ first_parental_index' = 0
              /\ nodes' = <<>>
              /\ edges' = <<>>
    /\ flushed' = IF gc THEN <<>> ELSE flushed
    /\ born' = IF gc THEN <<>> ELSE born
    /\ forward' = (gc \/ forward)
    /\ Observe("post_process_gc", <<gc, t1>>, <<>>)
    /\ EndPrepRun
    /\ UNCHANGED <<temp, offspring_indexes, generation, lastN, genAllocs,
                   genStart, staged,
                   finishes>>


\* variant: a reset also restarts the generation counter
post_process_gc_restarts_generation(gc, t1) ==
    /\ IF ~gc
         THEN UNCHANGED <<nodes, edges, next_index, first_parental_index,
                          last_gc_time, generation>>
         ELSE /\ last_gc_time' = generation
              /\ next_index' = t1
              /\ first_parental_index' = 0
              /\ nodes' = <<>>
              /\ edges' = <<>>
              /\ generation' = 1
    /\ flushed' = IF gc THEN <<>> ELSE flushed
    /\ born' = IF gc THEN <<>> ELSE born
    /\ forward' = (gc \/ forward)
    /\ Observe("post_process_gc", <<gc, t1>>, <<>>)
    /\ EndPrepRun
    /\ UNCHANGED <<temp, offspring_indexes, lastN, genAllocs,
                   genStart, staged,
                   finishes>>


\* variant: a reset leaves the node store as it is
post_process_gc_keeps_nodes(gc, t1) ==
    /\ IF ~gc
         THEN UNCHANGED <<nodes, edges, next_index, first_parental_index,
                          last_gc_time>>
         ELSE /\ last_gc_time' = generation
              /\ next_index' = t1
              /\ first_parental_index' = 0
              /\ nodes' = nodes
              /\ edges' = <<>>
    /\ flushed' = IF gc THEN <<>> ELSE flushed
    /\ born' = IF gc THEN <<>> ELSE born
    /\ forward' = (gc \/ forward)
    /\ Observe("post_process_gc", <<gc, t1>>, <<>>)
    /\ EndPrepRun
    /\ UNCHANGED <<temp, offspring_indexes, generation, lastN, genAllocs,
                   genStart, staged,
                   finishes>>

\* t = (gc, t1): whether the simplifier ran, and the next free identity
post_process_gc(gc, t1) ==
    /\ IF ~gc
         THEN UNCHANGED <<nodes, edges, next_index, first_parental_index,
                          last_gc_time>>
         ELSE /\ last_gc_time' = generation
              /\ next_index' = t1
              /\ first_parental_index' = 0
              /\ nodes' = <<>>
              /\ edges' = <<>>
    /\ flushed' = IF gc THEN <<>> ELSE flushed
    /\ born' = IF gc THEN <<>> ELSE born
    /\ forward' = (gc \/ forward)
    /\ Observe("post_process_gc", <<gc, t1>>, <<>>)
    /\ EndPrepRun
    /\ UNCHANGED <<temp, offspring_indexes, generation, lastN, genAllocs,
                   genStart, staged,
                   finishes>>

\* ------------------------------------------------------------ specification
Next ==
    \/ \E p \in Ordinals, did_swap \in {0, 1} : get_parent_ids(p, did_swap)
    \/ get_next_indexes
    \/ \E b \in BreakpointLists, pc \in ParentChildPairs :
          add_edges(b, pc[1], pc[2])
    \/ finish_generation
    \/ finish_generation_empty
    \/ prep_for_gc
    \/ \E gc \in BOOLEAN, t1 \in NewIndexes : post_process_gc(gc, t1)

Spec == Init /\ [][Next]_vars

\* the same tracker, with the driver's sequence of calls followed
SpecDriver == InitDriver /\ [][Next]_vars


\* ------------------------------------------------------------- properties
\* Properties of a call are stated over the step that makes it: the unprimed
\* fields are those before the call, the primed ones those after it.

\* the largest time over a non-empty node store
MaxTime(ns) ==
    CHOOSE m \in {ns[i].generation : i \in 1..Len(ns)} :
        \A i \in 1..Len(ns) : ns[i].generation <= m

\* C1: finish_generation appends exactly one node per identity allocated
\* since the previous finish_generation (or since construction), in
\* allocation order, each at the generation counter's value before the call
\* and in population 0, and leaves the nodes already stored as they were.
C1_FinishAppendsThisGeneration ==
    [][ lastOp'.op = "finish_generation" =>
          nodes' = nodes \o
                   [i \in 1..Len(genAllocs) |->
                       [id |-> genAllocs[i], generation |-> generation,
                        population |-> 0]]
      ]_vars

\* C2: no two nodes of the node store share an id.
C2_NodeIdsUnique ==
    \A i, j \in 1..Len(nodes) : i # j => nodes[i].id # nodes[j].id

\* C3: after finish_generation first_parental_index is the first identity
\* allocated during the generation just finished; it is 0 after construction
\* and after post_process_gc with gc = true; no other call changes it.
C3_FirstParentalIndex ==
    [][ /\ lastOp.op = "ancestry_tracker" => first_parental_index = 0
        /\ (lastOp'.op = "finish_generation" /\ genAllocs # <<>>)
              => first_parental_index' = genAllocs[1]
        /\ (lastOp'.op = "post_process_gc" /\ lastOp'.args[1])
              => first_parental_index' = 0
        /\ (\/ lastOp'.op \in {"get_parent_ids", "get_next_indexes",
                                "add_edges", "prep_for_gc"}
            \/ (lastOp'.op = "post_process_gc" /\ ~lastOp'.args[1]))
              => first_parental_index' = first_parental_index
      ]_vars

\* C4: on a non-empty node store prep_for_gc sets every node's time to
\* M - t, with t its time before the call and M the largest time in the
\* store before the call; so every time is >= 0 afterwards and the nodes
\* that carried M are at 0.
C4_PrepSubtractsFromMaximum ==
    [][ (lastOp'.op = "prep_for_gc" /\ nodes # <<>>) =>
          LET M == MaxTime(nodes) IN
          /\ Len(nodes') = Len(nodes)
          /\ \A i \in 1..Len(nodes) :
                /\ nodes'[i].generation = M - nodes[i].generation
                /\ nodes'[i].generation >= 0
                /\ nodes[i].generation = M => nodes'[i].generation = 0
      ]_vars

\* C5 as claimed: after two prep_for_gc calls in a row every node's time is
\* its time before the first call, or the negation of that time.
C5_TwicePrepRecoversUpToSign ==
    prepRun = 2 =>
        /\ Len(nodes) = Len(prepBase)
        /\ \A i \in 1..Len(nodes) :
              \/ nodes[i].generation = prepBase[i].generation
              \/ nodes[i].generation = -prepBase[i].generation

\* C5 as amended: after two prep_for_gc calls in a row every node's time is
\* its time before the first call minus the time the last node of the store
\* had before the first call; ids, populations and order are as before the
\* first call.
C5_TwicePrepShiftsByLastTime ==
    (prepRun = 2 /\ prepBase # <<>>) =>
        /\ Len(nodes) = Len(prepBase)
        /\ \A i \in 1..Len(nodes) :
              /\ nodes[i].generation =
                    prepBase[i].generation
                        - prepBase[Len(prepBase)].generation
              /\ nodes[i].id = prepBase[i].id
              /\ nodes[i].population = prepBase[i].population

\* two calls in a row on a store whose first and last node differ in time
\* and whose last node was not at time 0: the original times are not back
C5_Witness ==
    /\ prepRun = 2
    /\ lastOp.op = "prep_for_gc"
    /\ prepBase # <<>>
    /\ prepBase[1].generation # prepBase[Len(prepBase)].generation
    /\ prepBase[Len(prepBase)].generation # 0
    /\ \E i \in 1..Len(nodes) : nodes[i].generation # prepBase[i].generation

\* C6: post_process_gc with gc = true and next index X leaves the node store
\* and the edge store empty, next_index = X, first_parental_index = 0 and
\* last_gc_time equal to the generation counter at the call; the generation
\* counter keeps its value.
C6_AbsorbTrueResets ==
    [][ (lastOp'.op = "post_process_gc" /\ lastOp'.args[1]) =>
          /\ nodes' = <<>>
          /\ edges' = <<>>
          /\ next_index' = lastOp'.args[2]
          /\ first_parental_index' = 0
          /\ last_gc_time' = generation
          /\ generation' = generation
      ]_vars

\* a reset made in a later generation than the first, after identities were
\* allocated past the value the reset installs, with edges still staged
C6_Witness ==
    /\ lastOp.op = "post_process_gc"
    /\ lastOp.args[1]
    /\ generation > 1
    /\ last_gc_time = generation
    /\ offspring_indexes # <<>>
    /\ offspring_indexes[Len(offspring_indexes)] > next_index
    /\ temp # <<>>
    /\ nodes = <<>>

\* C7: post_process_gc with gc = false, whatever its second argument, leaves
\* every field of the tracker as it was: node store, edge store, staging
\* buffer, offspring identity list, generation counter, next_index,
\* first_parental_index, lastN and last_gc_time.
C7_AbsorbFalseChangesNothing ==
    [][ (lastOp'.op = "post_process_gc" /\ ~lastOp'.args[1]) =>
          UNCHANGED <<nodes, edges, temp, offspring_indexes, generation,
                      next_index, first_parental_index, lastN, last_gc_time>>
      ]_vars

\* a declined simplification on a tracker holding nodes and an edge, after
\* a finished generation, with a second argument that differs from next_index
C7_Witness ==
    /\ lastOp.op = "post_process_gc"
    /\ ~lastOp.args[1]
    /\ nodes # <<>>
    /\ edges \o temp # <<>>
    /\ generation > 1
    /\ offspring_indexes # <<>>
    /\ lastOp.args[2] # next_index
    /\ first_parental_index # 0

\* C8: right after construction with founder size N the node store holds
\* exactly 2N nodes with ids 0..2N-1 in ascending insertion order, all at
\* time 0 in population 0; next_index = 2N; first_parental_index = 0; the
\* generation counter is 1; edge store, staging buffer and offspring
\* identity list are empty.
C8_AfterInitialize ==
    lastOp.op = "ancestry_tracker" =>
        LET N == lastOp.args[1] IN
        /\ Len(nodes) = 2 * N
        /\ \A i \in 1..Len(nodes) :
              nodes[i] = [id |-> i - 1, generation |-> 0, population |-> 0]
        /\ next_index = 2 * N
        /\ first_parental_index = 0
        /\ generation = 1
        /\ edges = <<>>
        /\ temp = <<>>
        /\ offspring_indexes = <<>>

\* a tracker just constructed with at least one founder
C8_Witness ==
    /\ lastOp.op = "ancestry_tracker"
    /\ lastOp.args[1] >= 1
    /\ Len(nodes) = 2 * lastOp.args[1]

\* C9: get_parent_ids(p, did_swap) returns the ordered pair
\* (first_parental_index + 2p + did_swap, first_parental_index + 2p +
\* !did_swap): two distinct identities whose set is {first_parental_index +
\* 2p, first_parental_index + 2p + 1} whatever did_swap is, in exchanged
\* order when did_swap is set; the call changes no field of the tracker.
C9_ParentIds ==
    [][ lastOp'.op = "get_parent_ids" =>
          LET p == lastOp'.args[1]
              swapped == lastOp'.args[2]
              base == first_parental_index + 2 * p
          IN
          /\ ret' = IF swapped = 1 THEN <<base + 1, base>>
                                   ELSE <<base, base + 1>>
          /\ ret'[1] # ret'[2]
          /\ {ret'[1], ret'[2]} = {base, base + 1}
          /\ UNCHANGED <<nodes, edges, temp, offspring_indexes, generation,
                         next_index, first_parental_index, lastN,
                         last_gc_time>>
      ]_vars

\* a swapped lookup of a parent other than the first, in a window that does
\* not start at 0
C9_Witness ==
    /\ lastOp.op = "get_parent_ids"
    /\ lastOp.args = <<1, 1>>
    /\ first_parental_index > 0
    /\ ret = <<first_parental_index + 3, first_parental_index + 2>>

\* C10: get_next_indexes returns (n, n+1) with n the value of next_index
\* before the call, sets next_index to n+2, appends n and then n+1 to the
\* end of the offspring identity list and changes nothing else; a call that
\* directly follows another one returns a pair that starts exactly 2 above
\* the previous pair's start, so k calls in a row return 2k distinct,
\* strictly ascending identities.
C10_NextIndexes ==
    [][ lastOp'.op = "get_next_indexes" =>
          /\ ret' = <<next_index, next_index + 1>>
          /\ next_index' = next_index + 2
          /\ offspring_indexes' =
                offspring_indexes \o <<next_index, next_index + 1>>
          /\ UNCHANGED <<nodes, edges, temp, generation,
                         first_parental_index, lastN, last_gc_time>>
          /\ lastOp.op = "get_next_indexes" =>
                /\ ret'[1] = ret[1] + 2
                /\ ret[1] < ret[2] /\ ret[2] < ret'[1] /\ ret'[1] < ret'[2]
      ]_vars

\* a second allocation of the same generation that continues the first one,
\* in a tracker with founders
C10_Witness ==
    /\ lastOp.op = "get_next_indexes"
    /\ Len(genAllocs) = 4
    /\ genAllocs = << genAllocs[1], genAllocs[1] + 1,
                      genAllocs[1] + 2, genAllocs[1] + 3 >>
    /\ ret = <<genAllocs[3], genAllocs[4]>>
    /\ next_index = genAllocs[1] + 4
    /\ nodes # <<>>

\* C11: next_index changes in two ways only: get_next_indexes adds exactly 2
\* to it, and post_process_gc with gc = true overwrites it with its second
\* argument (the only step that may lower it); get_parent_ids, add_edges,
\* finish_generation, prep_for_gc and post_process_gc with gc = false leave
\* it as it was.
C11_NextIndexSteps ==
    [][ /\ lastOp'.op = "get_next_indexes" => next_index' = next_index + 2
        /\ (lastOp'.op = "post_process_gc" /\ lastOp'.args[1])
              => next_index' = lastOp'.args[2]
        /\ (\/ lastOp'.op \in {"get_parent_ids", "add_edges",
                                "finish_generation", "prep_for_gc"}
            \/ (lastOp'.op = "post_process_gc" /\ ~lastOp'.args[1]))
              => next_index' = next_index
        /\ next_index' < next_index
              => (lastOp'.op = "post_process_gc" /\ lastOp'.args[1])
      ]_vars

\* a reset that lowered next_index, in a run that had allocated identities
\* and finished a generation
C11_Witness ==
    /\ lastOp.op = "post_process_gc"
    /\ lastOp.args[1]
    /\ next_index = lastOp.args[2]
    /\ offspring_indexes # <<>>
    /\ offspring_indexes[Len(offspring_indexes)] > next_index
    /\ generation > 1
    /\ first_parental_index = 0

\* C12: the offspring identity list holds only identities of the generation
\* in progress: it is empty right after every finish_generation, and
\* otherwise it is a contiguous ascending sequence of even length whose
\* first element is the value next_index had when the generation started.
C12_ListOfGenerationInProgress ==
    /\ lastOp.op = "finish_generation" => offspring_indexes = <<>>
    /\ offspring_indexes # <<>> =>
          /\ Len(offspring_indexes) % 2 = 0
          /\ offspring_indexes[1] = genStart
          /\ \A i \in 1..(Len(offspring_indexes) - 1) :
                offspring_indexes[i + 1] = offspring_indexes[i] + 1

\* the edge that records one reported transmission
edge_of(r) ==
    [left |-> r.interval[1], right |-> r.interval[2],
     parent |-> r.parent, child |-> r.child]

C14_PrepChangesOnlyTimes ==
    [][ lastOp'.op = "prep_for_gc" =>
          /\ Len(nodes') = Len(nodes)
          /\ \A i \in 1..Len(nodes) :
                /\ nodes'[i].id = nodes[i].id
                /\ nodes'[i].population = nodes[i].population
          /\ edges' = edges
          /\ temp' = temp
          /\ offspring_indexes' = offspring_indexes
          /\ generation' = generation
          /\ next_index' = next_index
          /\ first_parental_index' = first_parental_index
          /\ lastN' = lastN
          /\ last_gc_time' = last_gc_time
          /\ nodes = <<>> => nodes' = <<>>
      ]_vars

\* a call that did change times, made on a tracker with staged edges and
\* listed identities
C14_Witness ==
    /\ lastOp.op = "prep_for_gc"
    /\ prepRun = 1
    /\ \E i \in 1..Len(nodes) : nodes[i].generation # prepBase[i].generation
    /\ temp # <<>>
    /\ offspring_indexes # <<>>

\* C15: in a run that follows the driver's sequence of calls, so that
\* prep_for_gc is never called twice without a finish_generation in between,
\* rounds in which post_process_gc receives gc = false included, right after
\* each prep_for_gc the time of every stored node is the number of
\* generations before the present: the number of the generation finished
\* last, minus the generation that created the node (0 for a founder).
C15_BackwardTimesInDriverRuns ==
    phase = "prepared" =>
        \A i \in 1..Len(nodes) :
            nodes[i].generation = (generation - 1) - born[i]

\* C16: at every hand-off to the simplifier (right after finish_generation,
\* with or without a prep_for_gc after it) offspring_indexes holds exactly
\* the ids of the nodes the most recent finish_generation appended, in
\* allocation order, and no identity of an earlier generation.
C16_SamplesAreLastGeneration ==
    [][ /\ lastOp'.op = "finish_generation" =>
            /\ offspring_indexes' =
                  [i \in 1..(Len(nodes') - Len(nodes)) |->
                      nodes'[Len(nodes) + i].id]
            /\ \A i \in 1..Len(offspring_indexes') :
                  \E j \in 1..Len(genAllocs) :
                      offspring_indexes'[i] = genAllocs[j]
        /\ lastOp'.op = "prep_for_gc" =>
            offspring_indexes' = offspring_indexes
      ]_vars

\* C17: generation is 1 after construction, grows by exactly 1 at every
\* finish_generation and is left as it was by every other call,
\* post_process_gc with gc = true included: after g calls of
\* finish_generation it is g + 1, however many resets happened in between.
C17_GenerationCountsFinishes ==
    /\ generation = finishes + 1
    /\ lastOp.op = "ancestry_tracker" => generation = 1

\* two generations finished, with a reset after the last
C17_Witness ==
    /\ finishes = 2
    /\ generation = 3
    /\ lastOp.op = "post_process_gc"
    /\ lastOp.args[1]
    /\ last_gc_time = 3

\* node times never decrease along the store
NonDecreasing(ns) ==
    \A i \in 1..(Len(ns) - 1) : ns[i].generation <= ns[i + 1].generation

\* C18: in every state reached from construction or from a reset
\* (post_process_gc with gc = true) with no prep_for_gc since, node times are
\* non-decreasing in insertion order, so the last node of a non-empty store
\* carries the largest time; and those are exactly the states in which the
\* last node's time, which prep_for_gc reads, is the largest time.
C18_LastIsMaxExactlyWhenForward ==
    /\ forward => NonDecreasing(nodes)
    /\ nodes # <<>> =>
          (forward <=> nodes[Len(nodes)].generation = MaxTime(nodes))

\* C18, amended: in every state reached from construction or from a reset
\* with no prep_for_gc since, node times are non-decreasing in insertion
\* order, so the last node of a non-empty store carries the largest time;
\* in those states, though not only in them, the last node's time that
\* prep_for_gc reads is the largest time.
C18_LastIsMaxWhenForward ==
    forward =>
        /\ NonDecreasing(nodes)
        /\ nodes # <<>> => nodes[Len(nodes)].generation = MaxTime(nodes)

\* after a reset, two generations were finished without a prep_for_gc: the
\* store holds nodes of two different times, the later ones last
C18_Witness ==
    /\ forward
    /\ last_gc_time > 0
    /\ lastOp.op = "finish_generation"
    /\ Len(nodes) > 1
    /\ nodes[1].generation < nodes[Len(nodes)].generation
====
